---- MODULE Spec2Model ----
(***************************************************************************)
(* Click-counter WebSocket hub (src/src/main.rs).                          *)
(*                                                                         *)
(* Every accepted TCP connection runs handle_connection as its own task.   *)
(* The tasks share two std::sync::Mutex-guarded structures: peer_map (the  *)
(* connection registry, SocketAddr -> UnboundedSender) and app_state       *)
(* (total_clicks, client_clicks).  A connection is identified by its       *)
(* SocketAddr; the model uses the numbers 1..NumConn.  The sender stored   *)
(* under an address feeds the unbounded channel created by that address's  *)
(* own task, so the registry is modelled by its key set and queue[c] is    *)
(* the channel of connection c.                                            *)
(*                                                                         *)
(* The timestamp of a click_response (Utc::now()) is not modelled.         *)
(***************************************************************************)
EXTENDS Integers, Sequences, FiniteSets, TLC

\* Number of connections the accept loop may spawn.
NumConn == 2
\* Total number of click and ping frames read by all sessions together.
MaxInbound == 3
\* Total number of frames read that no arm handles.
MaxIgnored == 1
\* Total number of items the forward duties write to their WebSockets.
MaxWrites == 2

Conn == 1..NumConn
\* Value of a lock variable when the mutex is free.
NoHolder == 0

VARIABLES
    pc,              \* position of each handle_connection task
    peer_map,        \* keys of PeerMap
    total_clicks,    \* AppState.total_clicks
    client_clicks,   \* AppState.client_clicks (a function on its key set)
    queue,           \* items buffered in each connection's unbounded channel
    transport,       \* items the forward duty has written to each WebSocket
    rx_open,         \* the receiving end rx of each channel exists
    state_lock,      \* task holding the app_state mutex, or NoHolder
    peers_lock,      \* task holding the peer_map mutex, or NoHolder
    state_poisoned,  \* app_state mutex poisoned by a panicking holder
    peers_poisoned,  \* peer_map mutex poisoned by a panicking holder
    shutdown,        \* main left its accept loop (Ctrl+C)
    \* history variables
    enqueued,        \* every item ever enqueued on each channel, in order
    n_in,            \* click and ping frames read so far
    n_ignored,       \* frames read so far that no arm handled
    clicks_in,       \* click frames read so far, by all sessions
    dereg_count,     \* executions of line 147 per connection
    forget_count,    \* executions of line 148 per connection
    forgotten_clicks, \* sum of the counts that line 148 has removed
    last_gu          \* total_clicks of the last global_update enqueued (0: none)

vars == <<pc, peer_map, total_clicks, client_clicks, queue, transport, rx_open,
          state_lock, peers_lock, state_poisoned, peers_poisoned, shutdown,
          enqueued, n_in, n_ignored, clicks_in, dereg_count, forget_count,
          forgotten_clicks, last_gu>>

shared == <<peer_map, total_clicks, client_clicks>>
locks == <<state_lock, peers_lock, state_poisoned, peers_poisoned>>
chans == <<queue, transport, rx_open, enqueued, last_gu>>
hist == <<n_in, n_ignored, clicks_in, dereg_count, forget_count, forgotten_clicks>>

----
\* Wire messages: the WsMessage variants as serde serialises them (tag "type").

InitZero(t) == [type |-> "init", total_clicks |-> 0]

Init_(t) == [type |-> "init", total_clicks |-> t]
ClickResponse(cc, t) ==
    [type |-> "click_response", client_clicks |-> cc, total_clicks |-> t]
GlobalUpdateStale(t) == [type |-> "global_update", total_clicks |-> t - 1]

GlobalUpdate(t) == [type |-> "global_update", total_clicks |-> t]
Pong == [type |-> "pong"]

\* Inbound frames a client can send: text frames holding each of the six tagged
\* objects, a tagged object of an unknown type, text that is not JSON, and a
\* binary frame that is not UTF-8.
Inbound == {"click", "ping", "init", "click_response", "global_update", "pong",
            "unknown_type", "malformed", "binary"}

\* msg.to_text() followed by serde_json::from_str::<WsMessage>: the parsed
\* variant, or "none" when either step fails.
Decode(p) ==
    IF p \in {"binary", "malformed", "unknown_type"} THEN "none" ELSE p

\* The match on the parsed message: which arm handles the frame.
DispatchWrong(p) ==
    CASE Decode(p) \in {"click", "malformed", "none"} -> "Click"
      [] Decode(p) \in {"ping", "pong"} -> "Ping"
      [] OTHER -> "Ignore"

Dispatch(p) ==
    CASE Decode(p) = "click" -> "Click"
      [] Decode(p) = "ping" -> "Ping"
      [] OTHER -> "Ignore"

----
\* Shared Counter State (AppState) and registry updates.

\* Line 99: state.total_clicks += 1.
NextTotalLost(t) == t

NextTotal(t) == t + 1

\* Lines 100-102: entry(addr).or_insert(0), then *client_clicks += 1.
NextClientClicksReset(cc, c) ==
    [d \in (DOMAIN cc) \cup {c} |-> IF d = c THEN 1 ELSE cc[d]]

NextClientClicks(cc, c) ==
    [d \in (DOMAIN cc) \cup {c} |->
        IF d = c THEN (IF c \in DOMAIN cc THEN cc[c] + 1 ELSE 1) ELSE cc[d]]

\* Line 148: client_clicks.remove(&addr).
ForgottenNot(cc, c) == cc

ForgottenAll(cc, c) == [d \in {} |-> 0]

Forgotten(cc, c) == [d \in (DOMAIN cc) \ {c} |-> cc[d]]

\* Line 148: the count that remove(&addr) takes out of the map (its Some(v),
\* or nothing when the connection never clicked).
Removed(cc, c) == IF c \in DOMAIN cc THEN cc[c] ELSE 0

\* Line 147: peer_map.remove(&addr).
DeregisteredNot(pm, c) == pm

Deregistered(pm, c) == pm \ {c}

\* Lines 82, 110, 127: peer_map.get(&addr), the senders a personal reply goes to.
LookupAll(pm, c) == pm

Lookup(pm, c) == pm \cap {c}

\* Lines 120-121: the peers the broadcast loop sends to.
BroadcastTargetsAll(pm, c) == pm

BroadcastTargets(pm, c) == {d \in pm : d # c}

\* Number of items written to all WebSockets so far.
RECURSIVE Written(_, _)
Written(t, n) == IF n = 0 THEN 0 ELSE Len(t[n]) + Written(t, n - 1)

\* Line 72: the channel is made by unbounded(); unbounded_send never waits
\* for room, whatever the number of items the receiver has not yet taken.
HasRoomBounded(q, d) == Len(q[d]) < 1

HasRoom(q, d) == TRUE

\* One item appended to the channel of every member of ds.
EnqAll(q, ds, m) == [d \in Conn |-> IF d \in ds THEN Append(q[d], m) ELSE q[d]]

----
Init ==
    /\ pc = [c \in Conn |-> "idle"]
    /\ peer_map = {}
    /\ total_clicks = 0
    /\ client_clicks = [c \in {} |-> 0]
    /\ queue = [c \in Conn |-> <<>>]
    /\ transport = [c \in Conn |-> <<>>]
    /\ rx_open = [c \in Conn |-> FALSE]
    /\ state_lock = NoHolder
    /\ peers_lock = NoHolder
    /\ state_poisoned = FALSE
    /\ peers_poisoned = FALSE
    /\ shutdown = FALSE
    /\ enqueued = [c \in Conn |-> <<>>]
    /\ n_in = 0
    /\ n_ignored = 0
    /\ clicks_in = 0
    /\ dereg_count = [c \in Conn |-> 0]
    /\ forget_count = [c \in Conn |-> 0]
    /\ forgotten_clicks = 0
    /\ last_gu = 0

\* The task's future is dropped: rx goes, and with it the items still buffered
\* in the channel; the WebSocket is closed.  q holds one sequence per
\* connection.
Dropped(q, c) == [q EXCEPT ![c] = <<>>]

\* A panic unwinds task c: its mutex guards are dropped (poisoning the
\* mutexes), its future is dropped, and lines 147-148 are not reached.  q and
\* e are queue and enqueued as the task left them.
Panics(c, q, e) ==
    /\ pc' = [pc EXCEPT ![c] = "panicked"]
    /\ rx_open' = [rx_open EXCEPT ![c] = FALSE]
    /\ queue' = Dropped(q, c)
    /\ enqueued' = Dropped(e, c)
    /\ transport' = Dropped(transport, c)
    /\ state_lock' = IF state_lock = c THEN NoHolder ELSE state_lock
    /\ state_poisoned' = (state_poisoned \/ state_lock = c)
    /\ peers_lock' = IF peers_lock = c THEN NoHolder ELSE peers_lock
    /\ peers_poisoned' = (peers_poisoned \/ peers_lock = c)

\* Lines 163-169: the accept loop spawns a task for the next connection.
\* Addresses are opaque, so connections are accepted in increasing order.
Accept(c) ==
    /\ ~shutdown
    /\ pc[c] = "idle"
    /\ \A d \in Conn : d < c => pc[d] # "idle"
    /\ pc' = [pc EXCEPT ![c] = "handshake"]
    /\ UNCHANGED <<shared, locks, chans, hist, shutdown>>

\* Lines 66-72: accept_async succeeds and the channel (tx, rx) is created.
HandshakeOk(c) ==
    /\ pc[c] = "handshake"
    /\ pc' = [pc EXCEPT ![c] = "register"]
    /\ rx_open' = [rx_open EXCEPT ![c] = TRUE]
    /\ UNCHANGED <<shared, locks, queue, transport, enqueued, last_gu, hist, shutdown>>

\* Lines 66-68: accept_async fails and expect panics; no lock is held.
HandshakeFail(c) ==
    /\ pc[c] = "handshake"
    /\ Panics(c, queue, enqueued)
    /\ UNCHANGED <<shared, last_gu, hist, shutdown>>

\* The positions at which a task is about to call peer_map.lock().
PeersWaiting == {"register", "init_send", "click_reply", "click_bcast", "ping", "dereg"}

\* peer_map.lock().unwrap() at lines 73, 82, 110, 119, 127, 147.
AcquirePeers(c) ==
    /\ pc[c] \in PeersWaiting
    /\ peers_lock = NoHolder
    /\ IF peers_poisoned
       THEN Panics(c, queue, enqueued)
       ELSE /\ peers_lock' = c
            /\ UNCHANGED <<pc, rx_open, queue, enqueued, transport, state_lock,
                           state_poisoned, peers_poisoned>>
    /\ UNCHANGED <<shared, last_gu, hist, shutdown>>

\* Line 73: insert(addr, tx); the guard is dropped at the end of the statement.
Register(c) ==
    /\ pc[c] = "register"
    /\ peers_lock = c
    /\ peer_map' = peer_map \cup {c}
    /\ peers_lock' = NoHolder
    /\ pc' = [pc EXCEPT ![c] = "init"]
    /\ UNCHANGED <<total_clicks, client_clicks, state_lock, state_poisoned,
                   peers_poisoned, chans, hist, shutdown>>

\* Line 77: app_state.lock().unwrap() of the init block.
InitLock(c) ==
    /\ pc[c] = "init"
    /\ state_lock = NoHolder
    /\ IF state_poisoned
       THEN Panics(c, queue, enqueued)
       ELSE /\ state_lock' = c
            /\ pc' = [pc EXCEPT ![c] = "init_send"]
            /\ UNCHANGED <<rx_open, queue, enqueued, transport, peers_lock,
                           state_poisoned, peers_poisoned>>
    /\ UNCHANGED <<shared, last_gu, hist, shutdown>>

\* A personal reply (lines 82-84, 110-112, 127-131): task c, holding the
\* peer_map guard, looks its own sender up and sends m on it; unwrap panics
\* when the receiver is gone.  The task goes on at position next, with the
\* app_state guard still held when keepState.
ReplyKeepsPeers(c, m, next, keepState) ==
    IF \E d \in Lookup(peer_map, c) : ~rx_open[d]
    THEN Panics(c, queue, enqueued)
    ELSE /\ queue' = EnqAll(queue, Lookup(peer_map, c), m)
         /\ enqueued' = EnqAll(enqueued, Lookup(peer_map, c), m)
         /\ pc' = [pc EXCEPT ![c] = next]
         /\ peers_lock' = peers_lock
         /\ state_lock' = IF keepState THEN state_lock ELSE NoHolder
         /\ UNCHANGED <<rx_open, transport, state_poisoned, peers_poisoned>>

Reply(c, m, next, keepState) ==
    IF \E d \in Lookup(peer_map, c) : ~rx_open[d]
    THEN Panics(c, queue, enqueued)
    ELSE /\ \A d \in Lookup(peer_map, c) : HasRoom(queue, d)
         /\ queue' = EnqAll(queue, Lookup(peer_map, c), m)
         /\ enqueued' = EnqAll(enqueued, Lookup(peer_map, c), m)
         /\ pc' = [pc EXCEPT ![c] = next]
         /\ peers_lock' = NoHolder
         /\ state_lock' = IF keepState THEN state_lock ELSE NoHolder
         /\ UNCHANGED <<rx_open, transport, state_poisoned, peers_poisoned>>

\* Lines 78-85: the init message carries total_clicks as read under the
\* app_state guard; both guards are dropped at the end of the block.
InitSend(c) ==
    /\ pc[c] = "init_send"
    /\ peers_lock = c
    /\ Reply(c, Init_(total_clicks), "established", FALSE)
    /\ UNCHANGED <<shared, last_gu, hist, shutdown>>

\* Lines 89-96 and the match at 96-134: the inbound duty reads frame p and
\* enters the arm that handles it.  Frames of the wildcard arm and frames that
\* do not decode fall through to Ok(()) at line 137.
Recv(c, p) ==
    /\ pc[c] = "established"
    /\ IF Dispatch(p) = "Ignore"
       THEN n_ignored < MaxIgnored /\ n_ignored' = n_ignored + 1 /\ n_in' = n_in
       ELSE n_in < MaxInbound /\ n_in' = n_in + 1 /\ n_ignored' = n_ignored
    /\ pc' = [pc EXCEPT ![c] =
                CASE Dispatch(p) = "Click" -> "click"
                  [] Dispatch(p) = "Ping" -> "ping"
                  [] OTHER -> "established"]
    /\ clicks_in' = IF Dispatch(p) = "Click" THEN clicks_in + 1 ELSE clicks_in
    /\ UNCHANGED <<shared, locks, chans, dereg_count, forget_count, forgotten_clicks,
                   shutdown>>

RecordClickReleasesState(c) ==
    /\ pc[c] = "click"
    /\ state_lock = NoHolder
    /\ IF state_poisoned
       THEN /\ Panics(c, queue, enqueued)
            /\ UNCHANGED <<total_clicks, client_clicks>>
       ELSE /\ state_lock' = NoHolder
            /\ total_clicks' = NextTotal(total_clicks)
            /\ client_clicks' = NextClientClicks(client_clicks, c)
            /\ pc' = [pc EXCEPT ![c] = "click_reply"]
            /\ UNCHANGED <<rx_open, queue, enqueued, transport, peers_lock,
                           state_poisoned, peers_poisoned>>
    /\ UNCHANGED <<peer_map, last_gu, hist, shutdown>>

\* Lines 98-102: the click arm locks app_state and records the click.  The
\* guard `state` lives until the end of the arm (line 125).
RecordClick(c) ==
    /\ pc[c] = "click"
    /\ state_lock = NoHolder
    /\ IF state_poisoned
       THEN /\ Panics(c, queue, enqueued)
            /\ UNCHANGED <<total_clicks, client_clicks>>
       ELSE /\ state_lock' = c
            /\ total_clicks' = NextTotal(total_clicks)
            /\ client_clicks' = NextClientClicks(client_clicks, c)
            /\ pc' = [pc EXCEPT ![c] = "click_reply"]
            /\ UNCHANGED <<rx_open, queue, enqueued, transport, peers_lock,
                           state_poisoned, peers_poisoned>>
    /\ UNCHANGED <<peer_map, last_gu, hist, shutdown>>

\* Lines 104-112: the click_response is sent on the task's own sender; the
\* peer_map guard of the `if let` is dropped at line 112.
ClickReply(c) ==
    /\ pc[c] = "click_reply"
    /\ peers_lock = c
    /\ Reply(c, ClickResponse(client_clicks[c], total_clicks), "click_bcast", TRUE)
    /\ UNCHANGED <<shared, last_gu, hist, shutdown>>

\* Lines 114-125: the global_update is sent to every other registered peer.
\* unbounded_send(..).unwrap() panics at the first peer whose receiver is gone;
\* HashMap iteration order is unspecified, so any set of the open peers may
\* have been served before it.  Both guards are dropped at line 125.
ClickBroadcast(c) ==
    /\ pc[c] = "click_bcast"
    /\ peers_lock = c
    /\ LET targets == BroadcastTargets(peer_map, c)
           gone == {d \in targets : ~rx_open[d]}
           m == GlobalUpdate(total_clicks)
       IN  IF gone = {}
           THEN /\ \A d \in targets : HasRoom(queue, d)
                /\ queue' = EnqAll(queue, targets, m)
                /\ enqueued' = EnqAll(enqueued, targets, m)
                /\ last_gu' = IF targets = {} THEN last_gu ELSE m.total_clicks
                /\ pc' = [pc EXCEPT ![c] = "established"]
                /\ state_lock' = NoHolder
                /\ peers_lock' = NoHolder
                /\ UNCHANGED <<rx_open, transport, state_poisoned, peers_poisoned>>
           ELSE \E served \in SUBSET (targets \ gone) :
                /\ last_gu' = IF served = {} THEN last_gu ELSE m.total_clicks
                /\ Panics(c, EnqAll(queue, served, m), EnqAll(enqueued, served, m))
    /\ UNCHANGED <<shared, hist, shutdown>>

\* Lines 126-132: the ping arm sends a pong on the task's own sender.
PongReply(c) ==
    /\ pc[c] = "ping"
    /\ peers_lock = c
    /\ Reply(c, Pong, "established", TRUE)
    /\ UNCHANGED <<shared, last_gu, hist, shutdown>>

\* Line 141: the item the forward duty takes from rx.
NextItemLast(q) == q[Len(q)]

NextItem(q) == Head(q)

\* Line 141: what stays in the channel once that item is taken.
RestItems(q) == Tail(q)

WriteOutDetached(c) ==
    /\ pc[c] \in {"established", "dereg", "forget"}
    /\ queue[c] # <<>>
    /\ Written(transport, NumConn) < MaxWrites
    /\ transport' = [transport EXCEPT ![c] = Append(@, NextItem(queue[c]))]
    /\ queue' = [queue EXCEPT ![c] = RestItems(@)]
    /\ UNCHANGED <<pc, shared, locks, rx_open, enqueued, last_gu, hist, shutdown>>

\* Line 141: rx.map(Ok).forward(outgoing) takes the next item of the channel
\* and writes it to the WebSocket.  Both duties are polled by the one task, so
\* nothing is written while the inbound handler runs.
WriteOut(c) ==
    /\ pc[c] = "established"
    /\ queue[c] # <<>>
    /\ Written(transport, NumConn) < MaxWrites
    /\ transport' = [transport EXCEPT ![c] = Append(@, NextItem(queue[c]))]
    /\ queue' = [queue EXCEPT ![c] = RestItems(@)]
    /\ UNCHANGED <<pc, shared, locks, rx_open, enqueued, last_gu, hist, shutdown>>

WriteErrorDropsRx(c) ==
    /\ pc[c] = "established"
    /\ queue[c] # <<>>
    /\ queue' = [queue EXCEPT ![c] = RestItems(@)]
    /\ rx_open' = [rx_open EXCEPT ![c] = FALSE]
    /\ pc' = [pc EXCEPT ![c] = "dereg"]
    /\ UNCHANGED <<shared, locks, transport, enqueued, last_gu, hist, shutdown>>

\* Lines 141-144: the write of the item taken from rx fails; forward ends with
\* the error, the item is lost and select returns.
WriteError(c) ==
    /\ pc[c] = "established"
    /\ queue[c] # <<>>
    /\ queue' = [queue EXCEPT ![c] = RestItems(@)]
    /\ pc' = [pc EXCEPT ![c] = "dereg"]
    /\ UNCHANGED <<shared, locks, transport, rx_open, enqueued, last_gu, hist, shutdown>>

ReadEndSkipsTeardown(c) ==
    /\ pc[c] = "established"
    /\ pc' = [pc EXCEPT ![c] = "closed"]
    /\ rx_open' = [rx_open EXCEPT ![c] = FALSE]
    /\ queue' = Dropped(queue, c)
    /\ enqueued' = Dropped(enqueued, c)
    /\ transport' = Dropped(transport, c)
    /\ UNCHANGED <<shared, locks, last_gu, hist, shutdown>>

\* Lines 89, 144: the inbound stream ends or yields an error (alone, or while
\* the write side fails too: select returns once); try_for_each ends and
\* select returns.
ReadEnd(c) ==
    /\ pc[c] = "established"
    /\ pc' = [pc EXCEPT ![c] = "dereg"]
    /\ UNCHANGED <<shared, locks, chans, hist, shutdown>>

\* Line 147: peer_map.lock().unwrap().remove(&addr).
DeregisterKeepsGuard(c) ==
    /\ pc[c] = "dereg"
    /\ peers_lock = c
    /\ peer_map' = Deregistered(peer_map, c)
    /\ peers_lock' = peers_lock
    /\ dereg_count' = [dereg_count EXCEPT ![c] = @ + 1]
    /\ pc' = [pc EXCEPT ![c] = "forget"]
    /\ UNCHANGED <<total_clicks, client_clicks, state_lock, state_poisoned,
                   peers_poisoned, chans, n_in, n_ignored, clicks_in, forget_count,
                   forgotten_clicks, shutdown>>

Deregister(c) ==
    /\ pc[c] = "dereg"
    /\ peers_lock = c
    /\ peer_map' = Deregistered(peer_map, c)
    /\ peers_lock' = NoHolder
    /\ dereg_count' = [dereg_count EXCEPT ![c] = @ + 1]
    /\ pc' = [pc EXCEPT ![c] = "forget"]
    /\ UNCHANGED <<total_clicks, client_clicks, state_lock, state_poisoned,
                   peers_poisoned, chans, n_in, n_ignored, clicks_in, forget_count,
                   forgotten_clicks, shutdown>>

\* Lines 148-149: app_state.lock().unwrap().client_clicks.remove(&addr), then
\* the function returns and its locals, rx among them, are dropped.
Forget(c) ==
    /\ pc[c] = "forget"
    /\ state_lock = NoHolder
    /\ IF state_poisoned
       THEN /\ Panics(c, queue, enqueued)
            /\ UNCHANGED <<client_clicks, forget_count, forgotten_clicks>>
       ELSE /\ client_clicks' = Forgotten(client_clicks, c)
            /\ forget_count' = [forget_count EXCEPT ![c] = @ + 1]
            /\ forgotten_clicks' = forgotten_clicks + Removed(client_clicks, c)
            /\ pc' = [pc EXCEPT ![c] = "closed"]
            /\ rx_open' = [rx_open EXCEPT ![c] = FALSE]
            /\ queue' = Dropped(queue, c)
            /\ enqueued' = Dropped(enqueued, c)
            /\ transport' = Dropped(transport, c)
            /\ UNCHANGED locks
    /\ UNCHANGED <<peer_map, total_clicks, last_gu, n_in, n_ignored, clicks_in,
                   dereg_count, shutdown>>

\* Lines 171-174: Ctrl+C ends the accept loop; main returns and the runtime
\* is dropped.
Shutdown ==
    /\ ~shutdown
    /\ shutdown' = TRUE
    /\ UNCHANGED <<pc, shared, locks, chans, hist>>

\* Dropping the runtime drops every task that is suspended at an await (lines
\* 67 and 144) without running the rest of it: rx goes, lines 147-148 do not
\* run.  A task that is being polled on another worker finishes that poll.
Cancel(c) ==
    /\ shutdown
    /\ pc[c] \in {"handshake", "established"}
    /\ pc' = [pc EXCEPT ![c] = "cancelled"]
    /\ rx_open' = [rx_open EXCEPT ![c] = FALSE]
    /\ queue' = Dropped(queue, c)
    /\ enqueued' = Dropped(enqueued, c)
    /\ transport' = Dropped(transport, c)
    /\ UNCHANGED <<shared, locks, last_gu, hist, shutdown>>

Step(c) ==
    \/ Accept(c)
    \/ HandshakeOk(c)
    \/ HandshakeFail(c)
    \/ AcquirePeers(c)
    \/ Register(c)
    \/ InitLock(c)
    \/ InitSend(c)
    \/ \E p \in Inbound : Recv(c, p)
    \/ RecordClick(c)
    \/ ClickReply(c)
    \/ ClickBroadcast(c)
    \/ PongReply(c)
    \/ WriteOut(c)
    \/ WriteError(c)
    \/ ReadEnd(c)
    \/ Deregister(c)
    \/ Forget(c)

\* The server while its accept loop runs.
Next == \E c \in Conn : Step(c)

Spec == Init /\ [][Next]_vars

\* The server including its shutdown on Ctrl+C.
NextShutdown ==
    \/ \E c \in Conn : Step(c)
    \/ Shutdown
    \/ \E c \in Conn : Cancel(c)

SpecShutdown == Init /\ [][NextShutdown]_vars

\* The synchronous code of task c between two awaits: it runs on unless it
\* blocks on a mutex, and every holder of a mutex is itself in such code.
Progress(c) ==
    \/ AcquirePeers(c)
    \/ Register(c)
    \/ InitLock(c)
    \/ InitSend(c)
    \/ RecordClick(c)
    \/ ClickReply(c)
    \/ ClickBroadcast(c)
    \/ PongReply(c)
    \/ Deregister(c)
    \/ Forget(c)

\* The running server, with every task's synchronous code making progress.
FairSpec == Init /\ [][Next]_vars /\ \A c \in Conn : WF_vars(Progress(c))

----
\* Auxiliary definitions of the properties.

\* The click_response items among the items enqueued for c, in order.
IsClickResponse(m) == m.type = "click_response"
ClickResponsesOf(c) == SelectSeq(enqueued[c], IsClickResponse)

\* Some item enqueued for c has the given type.
HasItem(c, t) == \E i \in 1..Len(enqueued[c]) : enqueued[c][i].type = t

\* No task is between reading a click frame and recording it.
AllClicksRecorded == \A c \in Conn : pc[c] # "click"

\* Task c takes the step that leaves position at.
Leaves(c, at) == pc[c] = at /\ pc'[c] # at

----
\* C1: once every click frame read has been processed, total_clicks equals
\* the number of click frames read (M connections sending K clicks each give
\* M*K): each click adds exactly 1, none is lost or counted twice.
C1_TotalCountsEveryClick ==
    AllClicksRecorded => total_clicks = clicks_in

\* Every connection is registered and has had one click recorded, and
\* total_clicks is NumConn * 1.
C1_Witness ==
    /\ AllClicksRecorded
    /\ DOMAIN client_clicks = Conn
    /\ \A c \in Conn : client_clicks[c] = 1
    /\ total_clicks = NumConn * 1
    /\ clicks_in = NumConn

\* C2: the broadcast step of a click enqueues its global_update exactly once
\* for every other connection registered at that moment, and nothing for the
\* clicking connection or for an unregistered one.
C2_BroadcastToOthersOnly ==
    [][\A c \in Conn : Leaves(c, "click_bcast") =>
          \A d \in Conn :
             enqueued'[d] =
                IF d \in peer_map /\ d # c
                THEN Append(enqueued[d], GlobalUpdate(total_clicks))
                ELSE enqueued[d]]_vars

\* Some connection holds a global_update while another holds the
\* click_response of a click.
C2_Witness ==
    \E c, d \in Conn :
        c # d /\ HasItem(d, "global_update") /\ HasItem(c, "click_response")

\* C3: the i-th click_response enqueued for a connection carries
\* client_clicks = i.
C3_OwnCountStepsByOne ==
    \A c \in Conn :
        \A i \in 1..Len(ClickResponsesOf(c)) :
            ClickResponsesOf(c)[i].client_clicks = i

\* A connection has two click_responses, with a click of another connection
\* recorded between them.
C3_Witness ==
    \E c \in Conn :
        /\ Len(ClickResponsesOf(c)) = 2
        /\ ClickResponsesOf(c)[1].total_clicks = 1
        /\ ClickResponsesOf(c)[2].total_clicks = 3

\* C4: a closed session's id is a key of neither peer_map nor client_clicks,
\* and the teardown steps of a session leave total_clicks as it was.
C4_DisconnectPurgesId ==
    /\ [](\A c \in Conn :
            pc[c] = "closed" => c \notin peer_map /\ c \notin DOMAIN client_clicks)
    /\ [][\A c \in Conn :
            (pc[c] \in {"established", "dereg", "forget"}
             /\ pc'[c] \in {"dereg", "forget", "closed"}
             /\ pc'[c] # pc[c])
            => total_clicks' = total_clicks]_vars

\* The only connection accepted so far clicked and has closed.
C4_Witness ==
    /\ pc[1] = "closed"
    /\ \A d \in Conn : d # 1 => pc[d] = "idle"
    /\ total_clicks >= 1

\* C5: reading a ping enqueues nothing; the ping arm then enqueues exactly one
\* pong for the pinging connection and nothing for any other; neither step
\* changes total_clicks or client_clicks.
C5_PingYieldsOnePong ==
    [][\A c \in Conn :
          /\ (pc[c] = "established" /\ pc'[c] = "ping")
                => UNCHANGED <<enqueued, total_clicks, client_clicks>>
          /\ Leaves(c, "ping")
                => /\ pc'[c] = "established"
                   /\ enqueued' = [enqueued EXCEPT ![c] = Append(@, Pong)]
                   /\ UNCHANGED <<total_clicks, client_clicks>>]_vars

\* A connection holds a pong while another connection is registered.
C5_Witness ==
    \E c, d \in Conn :
        c # d /\ HasItem(c, "pong") /\ d \in peer_map /\ rx_open[d]

\* Frames that are not valid inbound protocol messages.
NotInbound == {"init", "click_response", "global_update", "pong",
               "unknown_type", "malformed", "binary"}

\* C6: a frame that is malformed, of an unknown type or of a
\* server-to-client type enqueues nothing, changes neither the registry nor
\* the counters, and leaves the session established.
C6_BadFramesIgnored ==
    [][\A c \in Conn : \A p \in NotInbound :
          Recv(c, p) =>
             /\ UNCHANGED <<queue, enqueued, peer_map, total_clicks, client_clicks>>
             /\ pc'[c] = "established"]_vars

\* The only connection accepted so far read such a frame, stayed established
\* and went on to read a click.
C6_Witness ==
    /\ n_ignored = 1
    /\ pc[1] = "click"
    /\ clicks_in = 1
    /\ \A d \in Conn : d # 1 => pc[d] = "idle"

\* C7: when N >= 2 registered connections have each had exactly one click
\* processed and nobody else has clicked, the last global_update enqueued
\* carries total_clicks = N.
C7_LastGlobalUpdateIsN ==
    LET S == DOMAIN client_clicks
        N == Cardinality(S)
    IN  ( /\ N >= 2
          /\ S \subseteq peer_map
          /\ \A c \in S : client_clicks[c] = 1
          /\ total_clicks = N
          /\ \A c \in Conn : pc[c] \notin {"click", "click_reply", "click_bcast"} )
        => last_gu = N

\* Every connection has had exactly one click processed.
C7_Witness ==
    /\ DOMAIN client_clicks = Conn
    /\ Conn \subseteq peer_map
    /\ \A c \in Conn : client_clicks[c] = 1
    /\ total_clicks = NumConn
    /\ \A c \in Conn : pc[c] = "established"

\* C8 (as claimed): a broadcast that meets a peer whose receiver is gone
\* still enqueues the global_update for every other registered peer, and the
\* clicking session stays established.
C8_BroadcastSurvivesClosedPeer ==
    [][\A c \in Conn : Leaves(c, "click_bcast") =>
          /\ pc'[c] = "established"
          /\ \A d \in BroadcastTargets(peer_map, c) :
                rx_open[d] =>
                   enqueued'[d] = Append(enqueued[d], GlobalUpdate(total_clicks))]_vars

\* Positions of a session before select returns at line 144.
BeforeExit == {"idle", "handshake", "register", "init", "init_send", "established",
               "click", "click_reply", "click_bcast", "ping"}

\* Lines 147 and 148 have each run as often as the position of c requires.
TeardownCounted(c) ==
    /\ pc[c] \in BeforeExit => dereg_count[c] = 0 /\ forget_count[c] = 0
    /\ pc[c] = "dereg" => dereg_count[c] = 0 /\ forget_count[c] = 0
    /\ pc[c] = "forget" => dereg_count[c] = 1 /\ forget_count[c] = 0
    /\ pc[c] = "closed" => dereg_count[c] = 1 /\ forget_count[c] = 1

\* C9: whichever way select returns (stream end, read error, write error),
\* the session runs deregister and forget exactly once each and then is
\* closed.
C9_TeardownExactlyOnce ==
    /\ [](\A c \in Conn : TeardownCounted(c))
    /\ \A c \in Conn : (pc[c] = "dereg") ~> (pc[c] = "closed")

\* Every session has ended and is closed, deregister and forget having run
\* once for each, after at least one click was recorded.
C9_Witness ==
    /\ \A c \in Conn : pc[c] = "closed" /\ dereg_count[c] = 1 /\ forget_count[c] = 1
    /\ peer_map = {}
    /\ total_clicks >= 1

\* C10: no step enqueues anything for a connection that has been
\* deregistered; and when B, having seen init{0}, A's click and its own first
\* click, clicks again after A was deregistered, B gets click_response{2,3}.
C10_NothingForDeregistered ==
    [][/\ \A d \in Conn :
             dereg_count[d] >= 1 => Len(enqueued'[d]) <= Len(enqueued[d])
       /\ \A a, b \in Conn :
             ( /\ a # b
               /\ dereg_count[a] >= 1
               /\ enqueued[b] = <<Init_(0), GlobalUpdate(1), ClickResponse(1, 2)>>
               /\ Leaves(b, "click_reply") )
             => enqueued'[b] = Append(enqueued[b], ClickResponse(2, 3))]_vars

\* The scenario has run: A is closed and B holds click_response{2,3} after
\* init{0}, global_update{1} and click_response{1,2}.
C10_Witness ==
    \E a, b \in Conn :
        /\ a # b
        /\ pc[a] = "closed"
        /\ pc[b] = "established"
        /\ enqueued[b] = <<Init_(0), GlobalUpdate(1), ClickResponse(1, 2),
                           ClickResponse(2, 3)>>

\* C11: what the forward duty has written to a connection's WebSocket is a
\* prefix of what was enqueued on its channel, in the same order.
C11_WrittenIsPrefixOfEnqueued ==
    \A c \in Conn :
        /\ Len(transport[c]) <= Len(enqueued[c])
        /\ transport[c] = SubSeq(enqueued[c], 1, Len(transport[c]))

\* Two different items have been written to one WebSocket while a third
\* waits in the channel.
C11_Witness ==
    \E c \in Conn :
        /\ Len(transport[c]) = 2
        /\ transport[c][1] # transport[c][2]
        /\ queue[c] # <<>>

\* C12 (as stated): no connection task ever holds the AppState mutex and the
\* PeerMap mutex at the same time.
C12_LocksNeverHeldTogether ==
    \A c \in Conn : ~(state_lock = c /\ peers_lock = c)

\* C12 (amended): the AppState mutex is never acquired by a task that holds
\* the PeerMap mutex; a task holds both only in the init block and the Click
\* arm, where the AppState guard taken first is still alive while the
\* PeerMap mutex is locked for the reply and the broadcast.
C12_StateBeforePeers ==
    \A c \in Conn :
        /\ (state_lock' = c /\ state_lock # c) => (peers_lock # c /\ peers_lock' # c)
        /\ (state_lock = c /\ peers_lock = c)
               => pc[c] \in {"init_send", "click_reply", "click_bcast"}
        /\ (peers_lock' = c /\ peers_lock # c
                /\ pc[c] \in {"init_send", "click_reply", "click_bcast"})
               => state_lock = c

C12_LockOrder == [][C12_StateBeforePeers]_vars

\* A task broadcasts a global_update holding both guards.
C12_Witness ==
    \E c \in Conn :
        /\ pc[c] = "click_bcast"
        /\ state_lock = c
        /\ peers_lock = c

\* C13: no deadlock between the two mutexes: a task waiting for the AppState
\* mutex or for the PeerMap mutex eventually holds it (or has left the wait
\* by ending its teardown).
C13_EveryWaiterAcquires ==
    \A c \in Conn :
        /\ (pc[c] \in {"init", "click"}) ~> (state_lock = c)
        /\ (pc[c] \in PeersWaiting /\ peers_lock # c) ~> (peers_lock = c)
        /\ (pc[c] = "forget") ~> (pc[c] = "closed")

\* One task waits for the PeerMap mutex to deregister while another holds
\* both guards in its broadcast.
C13_Witness ==
    \E c, d \in Conn :
        /\ c # d
        /\ pc[c] = "dereg"
        /\ peers_lock = d
        /\ state_lock = d
        /\ pc[d] = "click_bcast"

\* C14 (as stated): in every state, every key of client_clicks is a key of
\* peer_map, the states inside the teardown included.
C14_CountsOnlyForRegistered == DOMAIN client_clicks \subseteq peer_map

\* C14 (amended): every key of client_clicks is a key of peer_map, except
\* the key of a connection whose task is between line 147 and line 148 of
\* its teardown: its peer_map entry is removed first, its count after.
C14_CountsOnlyForRegisteredOrForgetting ==
    /\ DOMAIN client_clicks \subseteq peer_map \cup {c \in Conn : pc[c] = "forget"}
    /\ \A c \in Conn : pc[c] = "closed" => c \notin DOMAIN client_clicks

\* One connection has been torn down and is neither registered nor counted,
\* while another that clicked is registered and counted.
C14_Witness ==
    \E c, d \in Conn :
        /\ pc[c] = "closed"
        /\ forget_count[c] = 1
        /\ c \notin peer_map \cup DOMAIN client_clicks
        /\ total_clicks >= 2
        /\ d \in peer_map \cap DOMAIN client_clicks

\* The init items among the items enqueued for c.
IsInit(m) == m.type = "init"
InitsOf(c) == SelectSeq(enqueued[c], IsInit)

\* Positions of a task before it ends its init block, and positions from the
\* end of the init block to the end of the teardown.
BeforeEstablished == {"idle", "handshake", "register", "init", "init_send"}
SinceEstablished ==
    {"established", "click", "click_reply", "click_bcast", "ping", "dereg", "forget"}

\* C15: a task that gets past its init block has enqueued exactly one init
\* on its own channel; it does so registered, before it reads any inbound
\* frame, and the init carries the value total_clicks has at that step.
C15_InitStep ==
    \A c \in Conn :
        /\ Leaves(c, "init_send") /\ pc'[c] = "established"
               => /\ c \in peer_map
                  /\ n_in = n_in' /\ n_ignored = n_ignored'
                  /\ enqueued'[c] = Append(enqueued[c],
                                           [type |-> "init", total_clicks |-> total_clicks])
                  /\ \A d \in Conn \ {c} : enqueued'[d] = enqueued[d]
        /\ pc[c] \in BeforeEstablished => Len(InitsOf(c)) = 0
        /\ pc[c] \in SinceEstablished => Len(InitsOf(c)) = 1
        /\ pc[c] \in BeforeEstablished /\ pc'[c] \in SinceEstablished
               => pc[c] = "init_send"
        /\ n_in' # n_in /\ pc'[c] # pc[c] => Len(InitsOf(c)) = 1

C15_ExactlyOneInit == [][C15_InitStep]_vars

\* A connection joined after a click: its init carries a total of at least 1
\* and is not the first item on its channel.
C15_Witness ==
    \E c \in Conn :
        /\ pc[c] = "established"
        /\ Len(enqueued[c]) >= 2
        /\ enqueued[c][2].type = "init"
        /\ enqueued[c][2].total_clicks >= 1

\* The step in which task c ends its Click arm.
ClickCompletes(c) == pc[c] = "click_bcast" /\ pc'[c] = "established"

\* C16: a recipient that does not drain its channel never stalls a sender.
\* Whatever the recipients' write duties do (they are under no fairness, so
\* they may never take a step), a click that has been read completes; the
\* step that completes it appends the global_update to the channel of every
\* other registered connection, however many items wait there, and the
\* click_response of the same click is already on the clicker's channel.
C16_ClickCompletesStep ==
    \A c \in Conn :
        ClickCompletes(c) =>
            /\ \A d \in peer_map \ {c} :
                   queue'[d] = Append(queue[d], [type |-> "global_update",
                                                 total_clicks |-> total_clicks])
            /\ \E i \in 1..Len(enqueued[c]) :
                   enqueued[c][i] = [type |-> "click_response",
                                     client_clicks |-> client_clicks[c],
                                     total_clicks |-> total_clicks]

C16_SlowRecipientNeverStalls ==
    /\ [][C16_ClickCompletesStep]_vars
    /\ \A c \in Conn :
           (pc[c] \in {"click", "click_reply", "click_bcast"}) ~> (pc[c] = "established")

\* A recipient has written nothing and holds its init and three
\* global_updates in its channel; the clicker is back in its read loop.
C16_Witness ==
    \E c, d \in Conn :
        /\ c # d
        /\ pc[c] = "established"
        /\ d \in peer_map
        /\ transport[d] = <<>>
        /\ Len(queue[d]) = 4
        /\ queue[d][4] = [type |-> "global_update", total_clicks |-> 3]

\* Positions of a task from the return of select (line 144) onwards.
AfterSelect == {"dereg", "forget", "closed"}

\* C17: the two duties share their fate.  Once either has ended (ReadEnd or
\* WriteError), no step writes a further item to the connection's WebSocket,
\* none records a click for it or reads a frame from it, the task only moves
\* on through its teardown, and it eventually is closed.
C17_NothingAfterSelect ==
    \A c \in Conn :
        pc[c] \in AfterSelect =>
            /\ pc'[c] \in AfterSelect
            /\ Len(transport'[c]) <= Len(transport[c])
            /\ c \in DOMAIN client_clicks'
                   => c \in DOMAIN client_clicks /\ client_clicks'[c] = client_clicks[c]
            /\ pc'[c] # pc[c] => n_in' = n_in /\ n_ignored' = n_ignored /\ total_clicks' = total_clicks

C17_FateShared ==
    /\ [][C17_NothingAfterSelect]_vars
    /\ \A c \in Conn : (pc[c] = "dereg") ~> (pc[c] = "closed")

\* A connection that clicked and wrote one item is in its teardown with
\* items still waiting in its channel.
C17_Witness ==
    \E c \in Conn :
        /\ pc[c] = "forget"
        /\ c \in DOMAIN client_clicks
        /\ Len(transport[c]) >= 1
        /\ queue[c] # <<>>

\* The items enqueued for c that carry a total_clicks field, in order.
HasTotal(m) == m.type \in {"init", "click_response", "global_update"}
TotalsOf(c) == SelectSeq(enqueued[c], HasTotal)
IsUpdate(m) == m.type \in {"click_response", "global_update"}

\* C18: on every connection's channel the total_clicks values of init,
\* click_response and global_update items never decrease in enqueue order,
\* and strictly increase from one click_response or global_update to the
\* next one.
C18_TotalsOrdered ==
    \A c \in Conn :
        \A i, j \in 1..Len(TotalsOf(c)) :
            i < j =>
                /\ TotalsOf(c)[i].total_clicks <= TotalsOf(c)[j].total_clicks
                /\ IsUpdate(TotalsOf(c)[i]) /\ IsUpdate(TotalsOf(c)[j])
                       => TotalsOf(c)[i].total_clicks < TotalsOf(c)[j].total_clicks

\* A channel holds a peer's global_update, then the init with the same total,
\* then the connection's own click_response and a later global_update.
C18_Witness ==
    \E c \in Conn :
        /\ Len(enqueued[c]) >= 4
        /\ enqueued[c][1] = [type |-> "global_update", total_clicks |-> 1]
        /\ enqueued[c][2] = [type |-> "init", total_clicks |-> 1]
        /\ enqueued[c][3].type = "click_response"
        /\ enqueued[c][4].type = "global_update"

\* The sum of the counts held in client_clicks.
RECURSIVE SumOver(_, _)
SumOver(cc, ks) ==
    IF ks = {} THEN 0
    ELSE LET k == CHOOSE x \in ks : TRUE IN cc[k] + SumOver(cc, ks \ {k})
SumClicks == SumOver(client_clicks, DOMAIN client_clicks)

\* C19: total_clicks is at least the sum of the current client_clicks values
\* and exceeds it by exactly the counts removed at teardown, so the two are
\* equal as long as no connection that clicked has been forgotten.
C19_TotalCoversCounts ==
    /\ total_clicks >= SumClicks
    /\ total_clicks = SumClicks + forgotten_clicks
    /\ forgotten_clicks = 0 => total_clicks = SumClicks

\* C19: and total_clicks never decreases from one state to the next.
C19_TotalAtLeastSum ==
    /\ []C19_TotalCoversCounts
    /\ [][total_clicks' >= total_clicks]_vars

\* A connection that clicked has been forgotten while another that clicked
\* is still counted: the total exceeds the sum.
C19_Witness ==
    /\ forgotten_clicks >= 1
    /\ SumClicks >= 1
    /\ total_clicks > SumClicks
    /\ \E c \in Conn : pc[c] = "closed"

\* C20 (as stated): in every state, every sender stored in peer_map belongs
\* to a channel whose receiver still exists, so no send to a registered
\* connection fails.
C20_RegisteredReceiversOpen == \A c \in peer_map : rx_open[c]

\* Positions of a task that ended without running lines 147-148.
EndedWithoutTeardown == {"cancelled", "panicked"}

\* C20 (amended): until main leaves its accept loop every sender stored in
\* peer_map has a live receiver, and a task that runs its teardown drops its
\* receiver only after it removed its own peer_map entry.  A task dropped by
\* the runtime at shutdown, or ended by a panic, drops its receiver and
\* stays registered: only its sender is in peer_map with the receiver gone.
C20_ReceiverState ==
    /\ ~shutdown => \A c \in peer_map : rx_open[c]
    /\ \A c \in peer_map : rx_open[c] \/ pc[c] \in EndedWithoutTeardown

C20_ReceiverStep ==
    \A c \in Conn :
        rx_open[c] /\ ~rx_open'[c] =>
            \/ pc'[c] = "closed" /\ c \notin peer_map /\ c \notin peer_map'
            \/ pc'[c] \in EndedWithoutTeardown

C20_ReceiverClosedAfterDeregister ==
    /\ []C20_ReceiverState
    /\ [][C20_ReceiverStep]_vars

\* A task has removed its entry and still owns its receiver, with items in
\* the channel, while a peer is registered with a live receiver.
C20_Witness ==
    \E c, d \in Conn :
        /\ c # d
        /\ pc[c] = "forget"
        /\ c \notin peer_map
        /\ rx_open[c]
        /\ queue[c] # <<>>
        /\ d \in peer_map
        /\ rx_open[d]

====
